---- MODULE Spec2Model ----
(***************************************************************************)
(* Model of mozsvc/secrets.py: the three secret stores Secrets (file       *)
(* backed), FixedSecrets and DerivedSecrets.                               *)
(*                                                                         *)
(* Text is modelled as sequences of one-character strings, compared the    *)
(* way Python compares byte strings (by character code, a proper prefix    *)
(* first).  A CSV file is a sequence of rows, a row a sequence of fields.  *)
(***************************************************************************)
EXTENDS Integers, Sequences, FiniteSets, TLC

VARIABLES secrets, disk, now, ops, result, loadedNodes, addedNodes, lastAddTs, saved,
          fixed, heap, returned, configured, fixedResult,
          masterSecrets, derivedResult

secretsVars == <<secrets, disk, now, ops, result, loadedNodes, addedNodes, lastAddTs, saved>>
fixedVars == <<fixed, heap, returned, configured, fixedResult>>
derivedVars == <<masterSecrets, derivedResult>>
vars == <<secretsVars, fixedVars, derivedVars>>

----------------------------------------------------------------------------
(* Bounds of the model.                                                    *)

MaxTime == 10
MaxSize == 1
MaxOps == 3
MaxFixed == 2
MaxGets == 2
MaxMasters == 2
MaxMasterLen == 2

----------------------------------------------------------------------------
(* Text.                                                                   *)

Digits == <<"0", "1", "2", "3", "4", "5", "6", "7", "8", "9">>
HexDigits == <<"0", "1", "2", "3", "4", "5", "6", "7", "8", "9",
               "a", "b", "c", "d", "e", "f">>

\* ord(c) for the characters the model uses
Code(c) ==
    CASE c = " " -> 32 [] c = "." -> 46 [] c = "/" -> 47
      [] c = "0" -> 48 [] c = "1" -> 49 [] c = "2" -> 50 [] c = "3" -> 51
      [] c = "4" -> 52 [] c = "5" -> 53 [] c = "6" -> 54 [] c = "7" -> 55
      [] c = "8" -> 56 [] c = "9" -> 57 [] c = ":" -> 58 [] c = "_" -> 95
      [] c = "a" -> 97 [] c = "b" -> 98 [] c = "c" -> 99 [] c = "d" -> 100
      [] c = "e" -> 101 [] c = "f" -> 102 [] c = "i" -> 105 [] c = "l" -> 108
      [] c = "m" -> 109 [] c = "n" -> 110 [] c = "o" -> 111 [] c = "p" -> 112
      [] c = "q" -> 113 [] c = "r" -> 114 [] c = "s" -> 115 [] c = "t" -> 116
      [] c = "v" -> 118 [] c = "x" -> 120 [] c = "z" -> 122

\* a < b for byte strings
RECURSIVE StrLess(_, _)
StrLess(a, b) ==
    IF b = <<>> THEN FALSE
    ELSE IF a = <<>> THEN TRUE
    ELSE IF Code(Head(a)) # Code(Head(b)) THEN Code(Head(a)) < Code(Head(b))
    ELSE StrLess(Tail(a), Tail(b))

StrLessEq(a, b) == a = b \/ StrLess(a, b)

\* str(n) for an integer n >= 0
RECURSIVE Str(_)
Str(n) == IF n < 10 THEN <<Digits[n + 1]>>
          ELSE Str(n \div 10) \o <<Digits[(n % 10) + 1]>>

\* s.split(sep): the parts of s between the occurrences of the character sep
RECURSIVE SplitFrom(_, _, _)
SplitFrom(s, sep, cur) ==
    IF s = <<>> THEN <<cur>>
    ELSE IF Head(s) = sep THEN <<cur>> \o SplitFrom(Tail(s), sep, <<>>)
    ELSE SplitFrom(Tail(s), sep, Append(cur, Head(s)))

Split(s, sep) == SplitFrom(s, sep, <<>>)

\* binascii.b2a_hex: two lower-case hex digits per byte
RECURSIVE B2aHex(_)
B2aHex(bytes) ==
    IF bytes = <<>> THEN <<>>
    ELSE <<HexDigits[(Head(bytes) \div 16) + 1], HexDigits[(Head(bytes) % 16) + 1]>>
         \o B2aHex(Tail(bytes))

\* s.split(): the words of s between runs of blanks
RECURSIVE SplitBlanksFrom(_, _)
SplitBlanksFrom(s, cur) ==
    IF s = <<>> THEN (IF cur = <<>> THEN <<>> ELSE <<cur>>)
    ELSE IF Head(s) = " "
         THEN (IF cur = <<>> THEN <<>> ELSE <<cur>>) \o SplitBlanksFrom(Tail(s), <<>>)
    ELSE SplitBlanksFrom(Tail(s), Append(cur, Head(s)))

SplitBlanks(s) == SplitBlanksFrom(s, <<>>)

\* the strings of length at most n over the characters of alphabet
StringsUpTo(alphabet, n) == UNION {[1..k -> alphabet] : k \in 0..n}

\* s[:n]
Prefix(s, n) == SubSeq(s, 1, IF n < Len(s) THEN n ELSE Len(s))

----------------------------------------------------------------------------
(* class Secrets                                                           *)

P == <<"p">>
Q == <<"q">>
Nodes == {P, Q}
Paths == {"one", "two"}

\* os.urandom draws each byte from 0..255; the model draws from two of them
ByteVals == {10, 177}

\* a "timestamp:secret" field of a file
Field(ts, s) == ts \o <<":">> \o s

\* (ts1, s1) <= (ts2, s2) for tuples of byte strings
TupleLessEq(a, b) == StrLess(a[1], b[1]) \/ (a[1] = b[1] /\ StrLessEq(a[2], b[2]))

\* list.sort() on a list of (timestamp, secret) tuples
RECURSIVE Insert(_, _)
Insert(x, sorted) ==
    IF sorted = <<>> THEN <<x>>
    ELSE IF TupleLessEq(x, Head(sorted)) THEN <<x>> \o sorted
    ELSE <<Head(sorted)>> \o Insert(x, Tail(sorted))

RECURSIVE Sort(_)
Sort(list) == IF list = <<>> THEN <<>> ELSE Insert(Head(list), Sort(Tail(list)))

\* the loop over row[1:] of load: split every field on ':'
RECURSIVE ParseSecrets(_)
ParseSecrets(fields) ==
    IF fields = <<>> THEN [ok |-> TRUE, list |-> <<>>]
    ELSE LET parts == Split(Head(fields), ":")
         IN IF Len(parts) # 2 THEN [ok |-> FALSE, list |-> <<>>]
            ELSE LET rest == ParseSecrets(Tail(fields))
                 IN [ok |-> rest.ok,
                     list |-> IF rest.ok THEN <<parts>> \o rest.list ELSE <<>>]

\* LoadRows without the duplicate-node test: a later row replaces an earlier one
RECURSIVE LoadRowsNoDuplicateTest(_, _)
LoadRowsNoDuplicateTest(s, rows) ==
    IF rows = <<>> THEN [secrets |-> s, err |-> "None"]
    ELSE LET row == Head(rows)
         IN IF Len(row) < 2 THEN LoadRowsNoDuplicateTest(s, Tail(rows))
            ELSE LET parsed == ParseSecrets(Tail(row))
                 IN IF ~parsed.ok THEN [secrets |-> s, err |-> "ValueError"]
                    ELSE LoadRowsNoDuplicateTest(
                             [n \in DOMAIN s \cup {row[1]} |->
                                 IF n = row[1] THEN Sort(parsed.list) ELSE s[n]],
                             Tail(rows))

\* the loop over the rows of one file; rows are committed as they are read
RECURSIVE LoadRows(_, _)
LoadRows(s, rows) ==
    IF rows = <<>> THEN [secrets |-> s, err |-> "None"]
    ELSE LET row == Head(rows)
         IN IF Len(row) < 2 THEN LoadRows(s, Tail(rows))
            ELSE IF row[1] \in DOMAIN s THEN [secrets |-> s, err |-> "ValueError"]
            ELSE LET parsed == ParseSecrets(Tail(row))
                 IN IF ~parsed.ok THEN [secrets |-> s, err |-> "ValueError"]
                    ELSE LoadRows(s @@ (row[1] :> Sort(parsed.list)), Tail(rows))

\* LoadFiles that returns after the first file
LoadFilesFirstOnly(s, paths, d) ==
    IF paths = <<>> THEN [secrets |-> s, err |-> "None"]
    ELSE IF ~d[Head(paths)].exists THEN [secrets |-> s, err |-> "IOError"]
    ELSE LoadRows(s, d[Head(paths)].rows)

\* the loop over the file names of load
RECURSIVE LoadFiles(_, _, _)
LoadFiles(s, paths, d) ==
    IF paths = <<>> THEN [secrets |-> s, err |-> "None"]
    ELSE IF ~d[Head(paths)].exists THEN [secrets |-> s, err |-> "IOError"]
    ELSE LET r == LoadRows(s, d[Head(paths)].rows)
         IN IF r.err # "None" THEN r ELSE LoadFiles(r.secrets, Tail(paths), d)

\* SaveRow with the two halves of each field exchanged
SaveRowSwapped(node, list) ==
    <<node>> \o [i \in 1..Len(list) |-> Field(list[i][2], list[i][1])]

\* one row of save
SaveRow(node, list) == <<node>> \o [i \in 1..Len(list) |-> Field(list[i][1], list[i][2])]

\* the rows save writes, the nodes taken in the order the dict yields them
SaveRows(s, order) == [i \in 1..Len(order) |-> SaveRow(order[i], s[order[i]])]

\* the orders in which a dict with these keys may be iterated
Orders(keyset) ==
    {o \in [1..Cardinality(keyset) -> keyset] : \A i, j \in DOMAIN o : i # j => o[i] # o[j]}

\* self._secrets[node] on a defaultdict(list): an absent key is inserted
Lookup(s, node) == IF node \in DOMAIN s THEN s ELSE s @@ (node :> <<>>)

\* the list get returns
GetList(list) == [i \in 1..Len(list) |-> list[i][2]]

\* NewSecret without the [:size]
NewSecretUncut(bytes, size) == B2aHex(bytes)

\* binascii.b2a_hex(os.urandom(size))[:size]
NewSecret(bytes, size) == Prefix(B2aHex(bytes), size)

\* RotationBlocked with < for <=
RotationBlockedStrict(timestamp, list) ==
    list # <<>> /\ StrLess(timestamp, list[Len(list)][1])

\* the rotation check of add: the new timestamp does not sort after the last one
RotationBlocked(timestamp, list) ==
    list # <<>> /\ StrLessEq(timestamp, list[Len(list)][1])

EmptyDict == [n \in {} |-> <<>>]
NoTs == [n \in Nodes |-> <<>>]
NoResult == [op |-> "init", node |-> <<>>, err |-> "None", list |-> <<>>,
             keyset |-> {}, pre |-> EmptyDict, ts |-> <<>>, prevTs |-> <<>>,
             size |-> 0, paths |-> <<>>]

Absent == [exists |-> FALSE, rows |-> <<>>]
File(rows) == [exists |-> TRUE, rows |-> rows]

\* files found on disk before the program runs
FileP == File(<< <<P, Field(Str(9), <<"a">>), Field(Str(10), <<"b">>)>> >>)
FileQ == File(<< <<Q, Field(Str(10), <<"c">>), Field(Str(8), <<"d">>)>> >>)
FileDup == File(<< <<Q, Field(Str(8), <<"a">>)>>, <<Q, Field(Str(9), <<"b">>)>> >>)
FileShort == File(<< <<>>, <<Q>>, <<P, Field(Str(8), <<"a">>)>> >>)
FileBad == File(<< <<P, Field(Str(9), <<"b">>)>>, <<Q, <<"9", ":", "a", ":", "b">>>> >>)
InitialDisks == {[a \in Paths |-> IF a = "one" THEN FileP ELSE FileQ],
                 [a \in Paths |-> IF a = "one" THEN FileDup ELSE Absent],
                 [a \in Paths |-> IF a = "one" THEN FileShort ELSE FileBad]}

\* the file names the model passes to Secrets(filename), load and save
PathLists == {<<>>, <<"one">>, <<"two">>, <<"one", "two">>}
SavePaths == {"two"}

\* the clock starts at second 9, so that the next second has one digit more
SecretsInit ==
    /\ secrets = EmptyDict
    /\ disk \in InitialDisks
    /\ now = 9
    /\ ops = 0
    /\ result = NoResult
    /\ loadedNodes = {}
    /\ addedNodes = {}
    /\ lastAddTs = NoTs
    /\ saved = [a \in Paths |-> [valid |-> FALSE, snap |-> EmptyDict, added |-> {}]]

\* Secrets(filename): a new store; when load raises, no store is made and the
\* caller is left with the one it had
Construct(paths) ==
    LET r == LoadFiles(EmptyDict, paths, disk)
    IN /\ result' = [NoResult EXCEPT !.op = "construct", !.err = r.err,
                                     !.pre = secrets, !.paths = paths]
       /\ IF r.err = "None"
          THEN /\ secrets' = r.secrets
               /\ loadedNodes' = DOMAIN r.secrets
               /\ addedNodes' = {}
               /\ lastAddTs' = NoTs
          ELSE UNCHANGED <<secrets, loadedNodes, addedNodes, lastAddTs>>
       /\ UNCHANGED <<disk, now, saved>>

\* load(filename) on the live store
Load(paths) ==
    LET r == LoadFiles(secrets, paths, disk)
    IN /\ secrets' = r.secrets
       /\ result' = [NoResult EXCEPT !.op = "load", !.err = r.err,
                                     !.pre = secrets, !.paths = paths]
       /\ loadedNodes' = loadedNodes \cup (DOMAIN r.secrets \ DOMAIN secrets)
       /\ UNCHANGED <<disk, now, addedNodes, lastAddTs, saved>>

\* save(filename)
Save(path) ==
    \E order \in Orders(DOMAIN secrets) :
       /\ disk' = [disk EXCEPT ![path] = File(SaveRows(secrets, order))]
       /\ saved' = [saved EXCEPT ![path] = [valid |-> loadedNodes = {},
                                           snap |-> secrets, added |-> addedNodes]]
       /\ result' = [NoResult EXCEPT !.op = "save", !.pre = secrets, !.paths = <<path>>]
       /\ UNCHANGED <<secrets, now, loadedNodes, addedNodes, lastAddTs>>

\* keys()
Keys ==
    /\ result' = [NoResult EXCEPT !.op = "keys", !.pre = secrets,
                                  !.keyset = DOMAIN secrets]
    /\ UNCHANGED <<secrets, disk, now, loadedNodes, addedNodes, lastAddTs, saved>>

\* get(node)
Get(node) ==
    LET s == Lookup(secrets, node)
    IN /\ secrets' = s
       /\ result' = [NoResult EXCEPT !.op = "get", !.node = node, !.pre = secrets,
                                     !.list = GetList(s[node])]
       /\ UNCHANGED <<disk, now, loadedNodes, addedNodes, lastAddTs, saved>>

\* add(node, size); time.time() reads a clock that has not gone back since
\* it was last read
Add(node, size) ==
    \E bytes \in [1..size -> ByteVals], time \in now..MaxTime :
       LET timestamp == Str(time)
           secret == NewSecret(bytes, size)
           s == Lookup(secrets, node)
           blocked == RotationBlocked(timestamp, s[node])
       IN /\ secrets' = IF blocked THEN s
                        ELSE [s EXCEPT ![node] = Append(@, <<timestamp, secret>>)]
          /\ result' = [NoResult EXCEPT !.op = "add", !.node = node, !.pre = secrets,
                           !.err = IF blocked THEN "AssertionError" ELSE "None",
                           !.ts = timestamp, !.prevTs = lastAddTs[node],
                           !.size = size, !.list = secret]
          /\ addedNodes' = addedNodes \cup {node}
          /\ lastAddTs' = [lastAddTs EXCEPT ![node] = timestamp]
          /\ now' = time
          /\ UNCHANGED <<disk, loadedNodes, saved>>

\* one more call on the store, while the model's budget of calls lasts; the
\* FixedSecrets and DerivedSecrets objects are not touched
Call ==
    /\ ops < MaxOps
    /\ ops' = ops + 1
    /\ UNCHANGED <<fixed, heap, returned, configured, fixedResult, masterSecrets,
                   derivedResult>>

SecretsNext ==
    \/ \E paths \in PathLists : Call /\ Construct(paths)
    \/ \E paths \in PathLists \ {<<>>} : Call /\ Load(paths)
    \/ \E path \in SavePaths : Call /\ Save(path)
    \/ Call /\ Keys
    \/ \E node \in Nodes : Call /\ Get(node)
    \/ \E node \in Nodes, size \in 0..MaxSize : Call /\ Add(node, size)

----------------------------------------------------------------------------
(* class FixedSecrets                                                      *)
(* Lists are objects of a heap: fixed is the address of self._secrets,     *)
(* returned the addresses of the lists get has handed out.                 *)

FixedChars == {"a", "b"}
FixedWords == StringsUpTo(FixedChars, 1) \ {<<>>}

\* __init__(secrets) with a list
FixedFromList(list) == list

\* __init__(secrets) with a string
FixedFromString(s) == SplitBlanks(s)

\* list(self._secrets) without the copy: the list itself
SameList(h, ref) == [heap |-> h, ref |-> ref]

\* list(self._secrets): a new list with the same elements
ListCopy(h, ref) == [heap |-> Append(h, h[ref]), ref |-> Len(h) + 1]

NoFixedResult == [op |-> "init", node |-> <<>>, ref |-> 0, list |-> <<>>, keyset |-> {}]

FixedInit ==
    /\ configured \in {FixedFromList(l) : l \in StringsUpTo(FixedWords, MaxFixed)}
                      \cup {FixedFromString(s) :
                               s \in StringsUpTo(FixedChars \cup {" "}, MaxFixed + 1)}
    /\ heap = <<configured>>
    /\ fixed = 1
    /\ returned = {}
    /\ fixedResult = NoFixedResult

\* get(node)
FixedGet(node) ==
    LET c == ListCopy(heap, fixed)
    IN /\ Cardinality(returned) < MaxGets
       /\ heap' = c.heap
       /\ returned' = returned \cup {c.ref}
       /\ fixedResult' = [NoFixedResult EXCEPT !.op = "get", !.node = node,
                                              !.ref = c.ref, !.list = c.heap[c.ref]]
       /\ UNCHANGED <<fixed, configured>>

\* keys()
FixedKeys ==
    /\ fixedResult' = [NoFixedResult EXCEPT !.op = "keys", !.keyset = {}]
    /\ UNCHANGED <<fixed, heap, returned, configured>>

\* the caller appends to a list that get returned
AppendToReturned(ref) ==
    /\ Len(heap[ref]) <= MaxFixed
    /\ heap' = [heap EXCEPT ![ref] = Append(@, <<"x">>)]
    /\ UNCHANGED <<fixed, returned, configured, fixedResult>>

\* the caller removes the first element of a list that get returned
PopFromReturned(ref) ==
    /\ heap[ref] # <<>>
    /\ heap' = [heap EXCEPT ![ref] = Tail(@)]
    /\ UNCHANGED <<fixed, returned, configured, fixedResult>>

\* the Secrets and DerivedSecrets objects are not touched
FixedOnly ==
    UNCHANGED <<secrets, disk, now, ops, result, loadedNodes, addedNodes, lastAddTs,
                saved, masterSecrets, derivedResult>>

FixedNext ==
    \/ \E node \in Nodes : FixedGet(node) /\ FixedOnly
    \/ FixedKeys /\ FixedOnly
    \/ \E ref \in returned : AppendToReturned(ref) /\ FixedOnly
    \/ \E ref \in returned : PopFromReturned(ref) /\ FixedOnly

----------------------------------------------------------------------------
(* class DerivedSecrets                                                    *)

MasterChars == {"a", "1"}

HKDF_INFO_NODE_SECRET ==
    <<"s", "e", "r", "v", "i", "c", "e", "s", ".", "m", "o", "z", "i", "l", "l", "a",
      ".", "c", "o", "m", "/", "m", "o", "z", "s", "v", "c", "/", "v", "1", "/",
      "n", "o", "d", "e", "_", "s", "e", "c", "r", "e", "t", "/">>

\* __init__(master_secrets) with a list
DerivedFromList(list) == list

\* __init__(master_secrets) with a string
DerivedFromString(s) == SplitBlanks(s)

RECURSIVE CodeSum(_)
CodeSum(s) == IF s = <<>> THEN 0 ELSE Code(Head(s)) + CodeSum(Tail(s))

\* tokenlib's HKDF(secret, size, salt, info, hashmod): size bytes that depend
\* on the secret and the info alone; the bytes here stand for the hash output
HKDF(secret, size, info) ==
    [i \in 1..size |-> (CodeSum(secret) * 31 + CodeSum(info) * 7 + i * 13) % 256]

\* the output size without the halving
DerivedSizeWhole(master_secret) == Len(master_secret)

\* int(len(master_secret) / 2)
DerivedSize(master_secret) == Len(master_secret) \div 2

\* the body of the loop of get, for one master secret
DeriveOne(master_secret, node) ==
    B2aHex(HKDF(master_secret, DerivedSize(master_secret), HKDF_INFO_NODE_SECRET \o node))

NoDerivedResult == [op |-> "init", node |-> <<>>, list |-> <<>>, keyset |-> {}]

DerivedInit ==
    /\ masterSecrets \in
          {DerivedFromList(l) :
              l \in StringsUpTo(StringsUpTo(MasterChars, MaxMasterLen), MaxMasters)}
          \cup {DerivedFromString(s) :
                   s \in StringsUpTo({"a", " "}, MaxMasterLen + 1)}
    /\ derivedResult = NoDerivedResult

\* get(node)
DerivedGet(node) ==
    /\ derivedResult' = [NoDerivedResult EXCEPT !.op = "get", !.node = node,
                            !.list = [i \in 1..Len(masterSecrets) |->
                                         DeriveOne(masterSecrets[i], node)]]
    /\ UNCHANGED masterSecrets

\* keys()
DerivedKeys ==
    /\ derivedResult' = [NoDerivedResult EXCEPT !.op = "keys", !.keyset = {}]
    /\ UNCHANGED masterSecrets

\* the Secrets and FixedSecrets objects are not touched
DerivedOnly ==
    UNCHANGED <<secrets, disk, now, ops, result, loadedNodes, addedNodes, lastAddTs,
                saved, fixed, heap, returned, configured, fixedResult>>

DerivedNext ==
    \/ \E node \in Nodes : DerivedGet(node) /\ DerivedOnly
    \/ DerivedKeys /\ DerivedOnly

----------------------------------------------------------------------------
(* Specifications: one per class, the stores of the other two left unmade. *)

SecretsIdle ==
    /\ secrets = EmptyDict /\ disk = [a \in Paths |-> Absent] /\ now = 9 /\ ops = 0
    /\ result = NoResult /\ loadedNodes = {} /\ addedNodes = {} /\ lastAddTs = NoTs
    /\ saved = [a \in Paths |-> [valid |-> FALSE, snap |-> EmptyDict, added |-> {}]]
FixedIdle ==
    /\ fixed = 0 /\ heap = <<>> /\ returned = {} /\ configured = <<>>
    /\ fixedResult = NoFixedResult
DerivedIdle == masterSecrets = <<>> /\ derivedResult = NoDerivedResult

Init == SecretsInit /\ FixedIdle /\ DerivedIdle
Next == SecretsNext
Spec == Init /\ [][Next]_vars

InitFixed == FixedInit /\ SecretsIdle /\ DerivedIdle
NextFixed == FixedNext
SpecFixed == InitFixed /\ [][NextFixed]_vars

InitDerived == DerivedInit /\ SecretsIdle /\ FixedIdle
NextDerived == DerivedNext
SpecDerived == InitDerived /\ [][NextDerived]_vars

----------------------------------------------------------------------------
(* Properties of class Secrets, checked under Spec.                        *)

\* int(ts) for a string of decimal digits
RECURSIVE ToInt(_)
ToInt(s) == IF s = <<>> THEN 0
            ELSE 10 * ToInt(SubSeq(s, 1, Len(s) - 1)) + (Code(s[Len(s)]) - 48)

\* the list stored for node in the dict s, empty when the node is absent
ListOf(s, node) == IF node \in DOMAIN s THEN s[node] ELSE <<>>

\* a is a rearrangement of b
IsPermutation(a, b) ==
    /\ Len(a) = Len(b)
    /\ \E f \in [1..Len(a) -> 1..Len(a)] :
          /\ \A i, j \in 1..Len(a) : i # j => f[i] # f[j]
          /\ \A i \in 1..Len(a) : a[i] = b[f[i]]

\* the rows of the files of a list of paths, in reading order
RECURSIVE RowsOf(_, _)
RowsOf(paths, d) ==
    IF paths = <<>> THEN <<>> ELSE d[Head(paths)].rows \o RowsOf(Tail(paths), d)

AllExist(paths, d) == \A i \in 1..Len(paths) : d[paths[i]].exists

\* two rows of at least two fields name the same node
HasDuplicateNode(rows) ==
    \E i, j \in 1..Len(rows) :
        i < j /\ Len(rows[i]) >= 2 /\ Len(rows[j]) >= 2 /\ rows[i][1] = rows[j][1]

\* the number of ':' in a field
Colons(field) == Cardinality({i \in 1..Len(field) : field[i] = ":"})

\* every row is a node followed by one or more timestamp:secret fields, and
\* no node has two rows
WellFormed(rows) ==
    /\ \A i \in 1..Len(rows) :
          Len(rows[i]) >= 2 /\ \A k \in 2..Len(rows[i]) : Colons(rows[i][k]) = 1
    /\ ~HasDuplicateNode(rows)

NodesOf(rows) == {rows[i][1] : i \in 1..Len(rows)}

\* the secrets of a well-formed row, in the order of the row
RowSecrets(row) == [k \in 1..(Len(row) - 1) |-> Split(row[k + 1], ":")[2]]

RotationLimit ==
    (result.op = "add" /\ result.prevTs = result.ts)
    => /\ result.err = "AssertionError"
       /\ ListOf(secrets, result.node) = ListOf(result.pre, result.node)

RotationLimitWitness ==
    /\ result.op = "add" /\ result.prevTs = result.ts
    /\ ListOf(result.pre, result.node) # <<>>

\* C3: every node's list is in non-decreasing order of its timestamps taken
\* as integers.
ChronologicalOrder ==
    \A n \in DOMAIN secrets :
        \A i, j \in 1..Len(secrets[n]) :
            i < j => ToInt(secrets[n][i][1]) <= ToInt(secrets[n][j][1])

\* C5: keys() is exactly the set of nodes committed by a load row or passed
\* to an add; in particular a get leaves the keys as they were.
KeysAreCommitted ==
    /\ DOMAIN secrets = loadedNodes \cup addedNodes
    /\ result.op = "get" => DOMAIN secrets = DOMAIN result.pre

\* C6: a load whose files hold two rows of at least two fields with the same
\* node raises ValueError.
DuplicateNodeRaises ==
    (/\ result.op \in {"load", "construct"}
     /\ AllExist(result.paths, disk)
     /\ HasDuplicateNode(RowsOf(result.paths, disk)))
    => result.err = "ValueError"

DuplicateNodeRaisesWitness ==
    /\ result.op \in {"load", "construct"}
    /\ Len(result.paths) = 2
    /\ AllExist(result.paths, disk)
    /\ ~HasDuplicateNode(disk[result.paths[1]].rows)
    /\ ~HasDuplicateNode(disk[result.paths[2]].rows)
    /\ HasDuplicateNode(RowsOf(result.paths, disk))
    /\ result.err = "ValueError"

\* C7: Secrets(files) with two well-formed files of disjoint node sets
\* succeeds, its keys are the union of the two node sets, and every node has
\* exactly the secrets of its row.
MultiFileLoad ==
    (/\ result.op = "construct"
     /\ Len(result.paths) = 2
     /\ AllExist(result.paths, disk)
     /\ WellFormed(RowsOf(result.paths, disk)))
    => /\ result.err = "None"
       /\ DOMAIN secrets = NodesOf(RowsOf(result.paths, disk))
       /\ \A i \in 1..Len(RowsOf(result.paths, disk)) :
             LET row == RowsOf(result.paths, disk)[i]
             IN IsPermutation(GetList(ListOf(secrets, row[1])), RowSecrets(row))

MultiFileLoadWitness ==
    /\ result.op = "construct"
    /\ Len(result.paths) = 2
    /\ AllExist(result.paths, disk)
    /\ WellFormed(RowsOf(result.paths, disk))
    /\ NodesOf(disk[result.paths[1]].rows) # {}
    /\ NodesOf(disk[result.paths[2]].rows) # {}
    /\ DOMAIN secrets = Nodes

\* C9: add succeeds, and the new pair is the last of the node's list, exactly
\* when the node has no secret yet or the second read is greater, as an
\* integer, than the timestamp of the node's last secret.
AddSucceedsWhenAllowed ==
    result.op = "add" =>
        LET before == ListOf(result.pre, result.node)
            allowed == before = <<>>
                       \/ ToInt(result.ts) > ToInt(before[Len(before)][1])
        IN /\ result.err = "None" <=> allowed
           /\ allowed => secrets[result.node] = Append(before, <<result.ts, result.list>>)

\* C10 as stated: the secret add stores is the full hex encoding of size
\* bytes, 2 * size characters.
AddSecretFullHex ==
    (result.op = "add" /\ result.err = "None")
    => Len(secrets[result.node][Len(secrets[result.node])][2]) = 2 * result.size

\* C10 amended: the secret add stores is a string of exactly size hex digits.
AddSecretLength ==
    (result.op = "add" /\ result.err = "None")
    => LET stored == secrets[result.node][Len(secrets[result.node])][2]
       IN /\ Len(stored) = result.size
          /\ \A i \in 1..Len(stored) : \E k \in 1..16 : stored[i] = HexDigits[k]

AddSecretLengthWitness ==
    /\ result.op = "add" /\ result.err = "None" /\ result.size >= 1
    /\ Len(secrets[result.node]) >= 1

----------------------------------------------------------------------------
(* Properties of class FixedSecrets, checked under SpecFixed.              *)

\* C8: get returns, for any node, a list equal to the configured list; the
\* list is a new one, so that changing a returned list changes neither the
\* store's list nor what a later get returns; keys() is empty.
FixedSecretsContract ==
    /\ heap[fixed] = configured
    /\ fixed \notin returned
    /\ fixedResult.op = "get" =>
          /\ fixedResult.list = configured
          /\ \A ref \in returned : ref # fixedResult.ref => ref < fixedResult.ref
    /\ fixedResult.op = "keys" => fixedResult.keyset = {}

FixedSecretsContractWitness ==
    /\ fixedResult.op = "get"
    /\ fixedResult.list = configured
    /\ configured # <<>>
    /\ \E ref \in returned : ref < fixedResult.ref /\ heap[ref] # configured

----------------------------------------------------------------------------
(* Properties of class DerivedSecrets, checked under SpecDerived.          *)

\* C4 as stated: get returns one secret per master secret, in order, each as
\* long as its master secret.
DerivedLengthEqual ==
    derivedResult.op = "get" =>
        /\ Len(derivedResult.list) = Len(masterSecrets)
        /\ \A i \in 1..Len(masterSecrets) :
              Len(derivedResult.list[i]) = Len(masterSecrets[i])

\* C4 amended: get returns one secret per master secret, in order, and the
\* i-th has 2 * floor(len(m_i) / 2) characters: as long as its master secret
\* when that has an even length, one character shorter when odd.
DerivedLength ==
    derivedResult.op = "get" =>
        /\ Len(derivedResult.list) = Len(masterSecrets)
        /\ \A i \in 1..Len(masterSecrets) :
              LET m == Len(masterSecrets[i])
                  d == Len(derivedResult.list[i])
              IN IF m % 2 = 0 THEN d = m ELSE d = m - 1

DerivedLengthWitness ==
    /\ derivedResult.op = "get"
    /\ Len(masterSecrets) = 2
    /\ Len(masterSecrets[1]) = 2 /\ Len(derivedResult.list[1]) = 2
    /\ Len(masterSecrets[2]) = 1 /\ Len(derivedResult.list[2]) = 0

====
